---------------------------- MODULE Spec2Model ----------------------------
(***************************************************************************)
(* A model of wikkid's versioned file stores: the Bazaar backed store of   *)
(* wikkid/filestore/bzr.py and the Git (Dulwich) backed store of           *)
(* wikkid/filestore/git.py.                                                *)
(*                                                                         *)
(* Representation.                                                         *)
(*  - A path is the sequence of its segments: "a/b/c" is <<"a","b","c">>.  *)
(*  - A byte string is the sequence of its lines; a line is a record       *)
(*    [t |-> text, e |-> ending] with e one of "" (no ending, last line    *)
(*    only), LF, CRLF.  Texts hold no line break.                          *)
(*  - Revision ids are the index of the commit in the order of creation;   *)
(*    NoRevision (0) is Python's None, and "no head" for a fresh git repo. *)
(*  - Git objects are content addressed: the id of a blob or tree is the   *)
(*    blob or tree value itself, and the object store is the set of the    *)
(*    values that were added.  A commit carries its creation time, so no   *)
(*    two commits share an id, and a commit id is its index.               *)
(*  - store.held maps a tree id to the Tree the object store returns for   *)
(*    it.  A store on disk parses the object anew on every fetch, so held  *)
(*    is the identity; a store in memory (store.shared) returns the Python *)
(*    object it holds, and store.classes groups the ids that name one and  *)
(*    the same object.                                                     *)
(***************************************************************************)
EXTENDS Naturals, Integers, Sequences, FiniteSets, TLC

VARIABLES
    backend,    \* "bzr" or "git": the store class that was constructed
                \* ("both": one store of each class, side by side)
    wt,         \* bzr: the working tree, path -> [kind, content]
    branch,     \* bzr: the revisions, each [parent, inv]; inv: path -> entry
    refs,       \* git: self.repo.refs[self.ref], a commit id or NoRevision
    store,      \* git: the object store, [commits, trees, blobs, held, ...]
    last,       \* the last call on the store and how it ended
    calls,      \* the call each caller thread is in, if any
    lock        \* bzr: the thread holding the tree's write lock, or NoThread

vars == <<backend, wt, branch, refs, store, last, calls, lock>>

---------------------------------------------------------------------------
(* Bounds of the model. *)

\* At most this many commits are created by update_file in one behaviour.
MaxCommits == 2

---------------------------------------------------------------------------
(* Values. *)

NoRevision == 0

LF == "LF"
CRLF == "CRLF"
NOEOL == ""

Last(s) == s[Len(s)]
Front(s) == SubSeq(s, 1, Len(s) - 1)

\* The byte string whose lines have the texts `texts`, every line ended by
\* `style`, the last one only when `trailing`.
Mk(texts, style, trailing) ==
    [i \in 1..Len(texts) |->
        [t |-> texts[i],
         e |-> IF i = Len(texts) /\ ~trailing THEN NOEOL ELSE style]]

\* str.endswith(ending) for a line; "\r\n" ends with "\n" too.
EndsWith(line, ending) ==
    IF ending = LF THEN line.e \in {LF, CRLF} ELSE line.e = ending

\* content.endswith('\n') for a byte string.
ContentEndsWithNewline(content) ==
    Len(content) > 0 /\ EndsWith(Last(content), LF)

\* line + ending, as string concatenation.  Within the line domain a line
\* that already carries an ending is never extended.
AppendEnding(line, ending) ==
    IF line.e = NOEOL THEN [line EXCEPT !.e = ending]
    ELSE [line EXCEPT !.e = line.e \o ending]

\* content + '\n': the empty string becomes the one line "\n".
AppendNewline(content) ==
    IF Len(content) = 0 THEN << [t |-> "", e |-> LF] >>
    ELSE [i \in 1..Len(content) |->
            IF i = Len(content) THEN AppendEnding(content[i], LF)
            ELSE content[i]]

\* str.splitlines(): the texts of the lines, endings dropped.
splitlines(content) == [i \in 1..Len(content) |-> content[i].t]

\* ending.join(texts): every text but the last is followed by the ending.
\* A last element "" adds no byte after the final ending.
JoinLines(ending, texts) ==
    LET n == Len(texts)
        m == IF n > 0 /\ texts[n] = "" THEN n - 1 ELSE n
    IN  [i \in 1..m |->
            [t |-> texts[i], e |-> IF i < n THEN ending ELSE NOEOL]]

\* split_lines(content): the lines of the byte string, endings kept.
split_lines(content) == content

normalize_line_endings(content, ending) ==
    JoinLines(ending, splitlines(content))

\* get_line_ending(lines); lines[0] of an empty list raises IndexError,
\* which the callers test for before using this.
get_line_ending(lines) ==
    IF EndsWith(lines[1], CRLF) THEN CRLF ELSE LF

---------------------------------------------------------------------------
(* Paths (bzrlib.urlutils; posixpath). *)

dirname(path) == Front(path)
basename(path) == Last(path)

\* The proper ancestors of a path, shortest first: "a", "a/b" for "a/b/c".
Ancestors(path) == {SubSeq(path, 1, k) : k \in 1..(Len(path) - 1)}

---------------------------------------------------------------------------
(* bzrlib.merge3.Merge3(base, a, b).merge_lines() with the default markers.*)
(* The lines of the model are position specific: a text of line i occurs   *)
(* in no other line of any file, so the matching blocks that the diff of   *)
(* base against a (and against b) finds are the runs of indices at which   *)
(* the two files hold the same line, and the sync regions are the runs of  *)
(* indices at which all three agree.                                       *)

MinOf(S) == CHOOSE x \in S : \A y \in S : x <= y

Marker(text, newline) == [t |-> text, e |-> newline]

\* A slip: a conflict region that holds the local lines before the incoming
\* ones.
MergeGap_local_first(A, B, Z, newline) ==
    IF Len(A) = 0 /\ Len(B) = 0 THEN << >>
    ELSE IF A = B THEN A
    ELSE IF A = Z THEN B
    ELSE IF B = Z THEN A
    ELSE <<Marker("<<<<<<<", newline)>> \o B
         \o <<Marker("=======", newline)>> \o A
         \o <<Marker(">>>>>>>", newline)>>

\* One region between two sync regions: merge_regions' 'same', 'a', 'b' or
\* 'conflict', rendered as merge_lines renders it.
MergeGap(A, B, Z, newline) ==
    IF Len(A) = 0 /\ Len(B) = 0 THEN << >>
    ELSE IF A = B THEN A
    ELSE IF A = Z THEN B
    ELSE IF B = Z THEN A
    ELSE <<Marker("<<<<<<<", newline)>> \o A
         \o <<Marker("=======", newline)>> \o B
         \o <<Marker(">>>>>>>", newline)>>

RECURSIVE MergeFrom(_, _, _, _, _)
MergeFrom(base, a, b, i, newline) ==
    LET Sync(j) == /\ j <= Len(base) /\ j <= Len(a) /\ j <= Len(b)
                   /\ base[j] = a[j] /\ base[j] = b[j]
        nexts == {j \in i..Len(base) : Sync(j)}
    IN  IF nexts = {}
        THEN MergeGap(SubSeq(a, i, Len(a)), SubSeq(b, i, Len(b)),
                      SubSeq(base, i, Len(base)), newline)
        ELSE LET z == MinOf(nexts)
                 zend == MinOf({k \in z..Len(base) : ~Sync(k + 1)})
             IN  MergeGap(SubSeq(a, i, z - 1), SubSeq(b, i, z - 1),
                          SubSeq(base, i, z - 1), newline)
                 \o SubSeq(base, z, zend)
                 \o MergeFrom(base, a, b, zend + 1, newline)

merge_lines(base, a, b) ==
    MergeFrom(base, a, b, 1,
              IF Len(a) > 0 /\ EndsWith(a[1], CRLF) THEN CRLF ELSE LF)

\* Merge3.merge_regions() yields a 'conflict' region at or after line i:
\* a region between two sync regions that a and b both changed, differently.
RECURSIVE ConflictFrom(_, _, _, _)
ConflictFrom(base, a, b, i) ==
    LET Sync(j) == /\ j <= Len(base) /\ j <= Len(a) /\ j <= Len(b)
                   /\ base[j] = a[j] /\ base[j] = b[j]
        nexts == {j \in i..Len(base) : Sync(j)}
        Conflict(A, B, Z) == A # B /\ A # Z /\ B # Z
    IN  IF nexts = {}
        THEN Conflict(SubSeq(a, i, Len(a)), SubSeq(b, i, Len(b)),
                      SubSeq(base, i, Len(base)))
        ELSE LET z == MinOf(nexts)
                 zend == MinOf({k \in z..Len(base) : ~Sync(k + 1)})
             IN  \/ Conflict(SubSeq(a, i, z - 1), SubSeq(b, i, z - 1),
                             SubSeq(base, i, z - 1))
                 \/ ConflictFrom(base, a, b, zend + 1)

---------------------------------------------------------------------------
(* The Bazaar store (wikkid/filestore/bzr.py). *)

\* working_tree.basis_tree(): the tree of the branch tip.
BasisTree == branch[Len(branch)].inv

\* working_tree.path2id(path) is not None.
path2id(path) == path \in DOMAIN wt

\* working_tree.commit(): one new revision on top of the branch tip; an
\* entry keeps its revision unless its kind or text changed.
Commit(tree, br) ==
    LET basis == br[Len(br)].inv
        r == Len(br) + 1
    IN  Append(br,
           [parent |-> Len(br),
            inv |-> [p \in DOMAIN tree |->
                       IF /\ p \in DOMAIN basis
                          /\ basis[p].kind = tree[p].kind
                          /\ basis[p].content = tree[p].content
                       THEN basis[p]
                       ELSE [kind |-> tree[p].kind,
                             content |-> tree[p].content,
                             revision |-> r]]])

\* The result of a call that raised `outcome` and changed nothing.
BzrRaise(outcome, exc_content, exc_rev) ==
    [outcome |-> outcome, wt |-> wt, branch |-> branch,
     exc_content |-> exc_content, exc_rev |-> exc_rev]

BzrDone(tree) ==
    [outcome |-> "ok", wt |-> tree, branch |-> Commit(tree, branch),
     exc_content |-> << >>, exc_rev |-> NoRevision]

\* _ensure_directory_or_nonexistant(dirname(path)) raises FileExists.
ensure_directory_or_nonexistant_raises(path) ==
    \E d \in Ancestors(path) : d \in DOMAIN wt /\ wt[d].kind # "directory"

_add_file(path, content) ==
    LET c1 == normalize_line_endings(content, LF)
        c2 == IF ContentEndsWithNewline(c1) THEN c1 ELSE AppendNewline(c1)
        newdirs == Ancestors(path) \ DOMAIN wt
        tree == [p \in DOMAIN wt \cup newdirs \cup {path} |->
                   IF p = path THEN [kind |-> "file", content |-> c2]
                   ELSE IF p \in newdirs
                        THEN [kind |-> "directory", content |-> << >>]
                        ELSE wt[p]]
    IN  IF ensure_directory_or_nonexistant_raises(path)
        THEN BzrRaise("FileExists", << >>, NoRevision)
        ELSE BzrDone(tree)

\* _update_file up to the merge (lines 128-151): the error raised on the
\* way, or the merged lines and whether they hold a conflict.
merge_update(path, content, parent_revision) ==
    LET current_lines == wt[path].content
        known == parent_revision \in 1..Len(branch)
        basis_lines == branch[parent_revision].inv[path].content
        ending == get_line_ending(current_lines)
        lines0 == split_lines(content)
        new_ending == get_line_ending(lines0)
        lines1 == IF ending # new_ending
                  THEN split_lines(normalize_line_endings(content, ending))
                  ELSE lines0
        new_lines == IF ~EndsWith(Last(lines1), ending)
                     THEN [i \in 1..Len(lines1) |->
                             IF i = Len(lines1)
                             THEN AppendEnding(lines1[i], ending)
                             ELSE lines1[i]]
                     ELSE lines1
        result == merge_lines(basis_lines, new_lines, current_lines)
        failed(error) == [error |-> error, result |-> << >>,
                          conflicted |-> FALSE, conflict_region |-> FALSE]
    IN  IF wt[path].kind = "directory"
        THEN failed("IOError")          \* wt.get_file_lines of a directory
        ELSE IF ~known \/ path \notin DOMAIN branch[parent_revision].inv
        THEN failed("NoSuchId")         \* basis.get_file_lines
        ELSE IF Len(current_lines) = 0 \/ Len(lines0) = 0
        THEN failed("IndexError")       \* get_line_ending: lines[0]
        ELSE [error |-> "", result |-> result,
              conflicted |-> \E i \in 1..Len(result) :
                                result[i] = Marker(">>>>>>>", ending),
              conflict_region |->
                  ConflictFrom(basis_lines, new_lines, current_lines, 1)]

\* A slip: the merged text is written to the working tree before the
\* conflict test.
_update_file_writes_first(path, content, parent_revision) ==
    LET m == merge_update(path, content, parent_revision)
    IN  IF m.error # "" THEN BzrRaise(m.error, << >>, NoRevision)
        ELSE IF m.conflicted
        THEN [BzrRaise("UpdateConflicts", m.result,
                       BasisTree[path].revision)
                EXCEPT !.wt = [wt EXCEPT ![path].content = m.result]]
        ELSE BzrDone([wt EXCEPT ![path].content = m.result])

_update_file(path, content, parent_revision) ==
    LET current_rev == BasisTree[path].revision
        m == merge_update(path, content, parent_revision)
    IN  IF m.error # "" THEN BzrRaise(m.error, << >>, NoRevision)
        ELSE IF m.conflicted
        THEN BzrRaise("UpdateConflicts", m.result, current_rev)
        ELSE BzrDone([wt EXCEPT ![path].content = m.result])

bzr_update_file(path, content, parent_revision) ==
    IF ~path2id(path) THEN _add_file(path, content)
    ELSE _update_file(path, content, parent_revision)

\* bzr File(filestore, path, file_id) and its accessors.
bzr_get_file(path) ==
    IF ~path2id(path)
    THEN [found |-> FALSE, error |-> "", is_directory |-> FALSE,
          content |-> << >>, content_state |-> "none", rev |-> NoRevision]
    ELSE [found |-> TRUE, error |-> "",
          is_directory |-> wt[path].kind = "directory",
          content |-> wt[path].content,
          content_state |-> IF wt[path].kind = "directory"
                            THEN "IOError" ELSE "bytes",
          rev |-> BasisTree[path].revision]

\* bzr list_directory: [none, error, paths]; `dir` << >> is the root (None).
bzr_list_directory(dir) ==
    IF dir # << >> /\ (~path2id(dir) \/ wt[dir].kind # "directory")
    THEN [none |-> TRUE, error |-> "", paths |-> {}]
    ELSE [none |-> FALSE, error |-> "",
          paths |-> {p \in DOMAIN wt : Len(p) > 0 /\ dirname(p) = dir}]

---------------------------------------------------------------------------
(* The Git store (wikkid/filestore/git.py). *)

EmptyTree == << >>

IsDir(entry) == entry.mode = "DIR"

\* tree[name] = entry on a dulwich Tree.
SetEntry(tree, name, entry) ==
    [n \in DOMAIN tree \cup {name} |-> IF n = name THEN entry ELSE tree[n]]

\* _get_root(revision): [found, commit_id, root].
_get_root(revision) ==
    LET rev == IF revision = NoRevision THEN refs ELSE revision
    IN  IF rev \in 1..Len(store.commits)
        THEN [found |-> TRUE, commit_id |-> rev,
              root |-> store.commits[rev].tree]
        ELSE [found |-> FALSE, commit_id |-> NoRevision, root |-> EmptyTree]

\* `el in tree` for a key that is the joined string of the segments `el`:
\* a tree's names hold no "/" and are not empty.
HasKey(tree, el) == Len(el) = 1 /\ el[1] \in DOMAIN tree

GitRaise(outcome) ==
    [outcome |-> outcome, refs |-> refs, store |-> store]

\* self.store[sha] for the id of a tree: the Tree the store returns.
Obj(sha) == store.held[sha]

\* tree[name] = entry on a Tree followed by store.add_object(tree), in the
\* object store `st`.  `new` is the Tree after the assignment; `fetched`
\* tells whether the Tree came from st as self.store[sha] or is a fresh
\* Tree().  The Tree is stored under its new id.  A store in memory handed
\* out the object it holds, so every id naming that object now returns the
\* changed Tree as well.
PutTree(st, fetched, sha, new) ==
    LET same == IF st.shared /\ fetched
                THEN UNION {K \in st.classes : sha \in K} ELSE {}
        ids == same \cup {new}
    IN  [commits |-> st.commits,
         blobs |-> st.blobs,
         shared |-> st.shared,
         trees |-> st.trees \cup {new},
         held |-> [i \in DOMAIN st.held \cup {new} |->
                     IF i \in ids THEN new ELSE st.held[i]],
         classes |-> IF st.shared
                     THEN ({K \ ids : K \in st.classes} \ {{}}) \cup {ids}
                     ELSE st.classes]

\* update_file after _get_root (lines 73-111), `got` being what _get_root
\* returned: [outcome, refs, store].
git_build(got, path, content) ==
    LET root_tree == IF got.found THEN Obj(got.root) ELSE EmptyTree
        \* elements = posixpath.split(path.strip("/")): a pair (head, tail)
        head == dirname(path)
        tail == basename(path)
        found == HasKey(root_tree, head)
        fetched == found /\ root_tree[head[1]].sha \in store.trees
        sha == IF fetched THEN root_tree[head[1]].sha ELSE EmptyTree
        tree == IF fetched THEN Obj(sha) ELSE EmptyTree
        \* the blob is not added to the store
        child == [mode |-> "REG", sha |-> content]
        \* the zip pairs the one tree with the last element only
        tree2 == SetEntry(tree, tail, child)
        st1 == PutTree(store, fetched, sha, tree2)
        \* root_tree[name]: `name` is still the last element
        root1 == IF got.found THEN st1.held[got.root] ELSE EmptyTree
        root2 == SetEntry(root1, tail, [mode |-> "DIR", sha |-> tree2])
        st2 == PutTree(st1, got.found, got.root, root2)
        \* c.parents is never assigned: the commit has no parent
        c == [tree |-> root2, parent |-> NoRevision,
              time |-> Len(store.commits) + 1]
    IN  IF found /\ ~IsDir(root_tree[head[1]])
        THEN GitRaise("FileExists")
        ELSE IF tail \in DOMAIN tree /\ IsDir(tree[tail])
        THEN GitRaise("FileExists")
        ELSE [outcome |-> "ok",
              refs |-> Len(store.commits) + 1,
              store |-> [commits |-> Append(st2.commits, c),
                         blobs |-> st2.blobs,
                         shared |-> st2.shared,
                         trees |-> st2.trees,
                         held |-> st2.held,
                         classes |-> st2.classes]]

\* A slip: the commit is stored and the reference is not set to it.
git_update_file_keeps_ref(path, content, parent_revision) ==
    [git_build(_get_root(parent_revision), path, content) EXCEPT !.refs = refs]

git_update_file(path, content, parent_revision) ==
    git_build(_get_root(parent_revision), path, content)

\* dulwich tree_lookup_path(store.__getitem__, root, path):
\* [state, mode, sha] with state "ok", "KeyError" or "NotTreeError".
RECURSIVE tree_lookup_path(_, _, _)
tree_lookup_path(mode, sha, path) ==
    IF Len(path) = 0 THEN [state |-> "ok", mode |-> mode, sha |-> sha]
    ELSE IF mode = "DIR" /\ sha \notin store.trees
         THEN [state |-> "KeyError", mode |-> mode, sha |-> EmptyTree]
    ELSE IF mode # "DIR" /\ sha \notin store.blobs
         THEN [state |-> "KeyError", mode |-> mode, sha |-> EmptyTree]
    ELSE IF mode # "DIR"
         THEN [state |-> "NotTreeError", mode |-> mode, sha |-> EmptyTree]
    ELSE IF path[1] \notin DOMAIN Obj(sha)
         THEN [state |-> "KeyError", mode |-> mode, sha |-> EmptyTree]
    ELSE tree_lookup_path(Obj(sha)[path[1]].mode, Obj(sha)[path[1]].sha,
                          Tail(path))

\* Whether two lookups of one path differ (none, or another mode or id).
EntryDiffers(x, y) ==
    IF x.state # "ok" \/ y.state # "ok" THEN (x.state = "ok") # (y.state = "ok")
    ELSE x.mode # y.mode \/ x.sha # y.sha

\* Walker(store, include=[commit], paths=[path]): the first commit, from
\* `commit` back along the parents, that changed the path; NoRevision when
\* the walk ends without one (next() raises StopIteration).
RECURSIVE last_modified_commit(_, _)
last_modified_commit(commit, path) ==
    IF commit = NoRevision THEN NoRevision
    ELSE LET c == store.commits[commit]
             here == tree_lookup_path("DIR", c.tree, path)
             there == IF c.parent = NoRevision
                      THEN [state |-> "KeyError", mode |-> "DIR",
                            sha |-> EmptyTree]
                      ELSE tree_lookup_path(
                              "DIR", store.commits[c.parent].tree, path)
         IN  IF EntryDiffers(here, there) THEN commit
             ELSE last_modified_commit(c.parent, path)

\* git get_file and the File it returns.
git_get_file(path) ==
    LET got == _get_root(NoRevision)
        e == tree_lookup_path("DIR", got.root, path)
        nofile == [found |-> FALSE, error |-> "", is_directory |-> FALSE,
                   content |-> << >>, content_state |-> "none",
                   rev |-> NoRevision]
    IN  IF ~got.found \/ e.state = "KeyError" THEN nofile
        ELSE IF e.state = "NotTreeError"
        THEN [nofile EXCEPT !.error = "NotTreeError"]
        ELSE [found |-> TRUE, error |-> "",
              is_directory |-> e.mode = "DIR",
              content |-> IF e.mode # "DIR" /\ e.sha \in store.blobs
                          THEN e.sha ELSE << >>,
              content_state |->
                  IF e.mode = "DIR"
                  THEN (IF e.sha \in store.trees THEN "none" ELSE "KeyError")
                  ELSE (IF e.sha \in store.blobs THEN "bytes" ELSE "KeyError"),
              rev |-> last_modified_commit(got.commit_id, path)]

\* git list_directory: [none, error, paths]; `dir` << >> is the root.
\* With no head the root id is None and self.store[None] raises.
git_list_directory(dir) ==
    LET got == _get_root(NoRevision)
        e == tree_lookup_path("DIR", got.root, dir)
        none == [none |-> TRUE, error |-> "", paths |-> {}]
    IN  IF dir = << >>
        THEN (IF got.found
              THEN [none |-> FALSE, error |-> "",
                    paths |-> {<<n>> : n \in DOMAIN Obj(got.root)}]
              ELSE [none EXCEPT !.error = "KeyError"])
        ELSE IF ~got.found \/ e.state = "KeyError" THEN none
        ELSE IF e.state = "NotTreeError"
        THEN [none EXCEPT !.error = "NotTreeError"]
        ELSE IF e.mode # "DIR" THEN none
        ELSE IF e.sha \notin store.trees
        THEN [none EXCEPT !.error = "KeyError"]
        ELSE [none |-> FALSE, error |-> "",
              paths |-> {dir \o <<n>> : n \in DOMAIN Obj(e.sha)}]

---------------------------------------------------------------------------
(* The stores the model starts from and the calls it makes. *)

TextBase == <<"p0", "q0", "r0">>
TextFirst == <<"p1", "q0", "r0">>
TextFirstToo == <<"p2", "q0", "r0">>
TextThird == <<"p0", "q0", "r1">>

PathA == <<"a">>

\* The contents of the text file `a` of a store that is opened: \n lines
\* with or without a newline at the end, or \r\n lines.
InitialTexts ==
    { Mk(TextBase, LF, TRUE), Mk(TextBase, LF, FALSE),
      Mk(TextBase, CRLF, TRUE) }

\* The files a store holds when it is opened: none, or a text file `a`, a
\* directory `d` with a file `d/f` and an empty directory `d/e`.
InitialFiles ==
    { << >> } \cup
    { (PathA :> [kind |-> "file", content |-> text])
      @@ (<<"d">> :> [kind |-> "directory", content |-> << >>])
      @@ (<<"d", "e">> :> [kind |-> "directory", content |-> << >>])
      @@ (<<"d", "f">> :> [kind |-> "file", content |-> Mk(<<"x">>, LF, TRUE)])
      : text \in InitialTexts }

\* The (path, content) pairs update_file is called with.
UpdateInputs ==
    ({PathA} \X { Mk(TextFirst, LF, TRUE), Mk(TextFirstToo, LF, FALSE),
                  Mk(TextThird, LF, FALSE), Mk(TextFirst, CRLF, FALSE),
                  << >> })
    \cup ({ <<"a", "b">>, <<"a", "b", "c">>, <<"d">>, <<"d", "e">>,
            <<"n">>, <<"n", "m">> }
          \X { Mk(<<"x", "y">>, CRLF, FALSE) })

\* The paths get_file and list_directory are called with.
Paths == {in[1] : in \in UpdateInputs} \cup {<<"d", "f">>, <<"n", "n">>}

\* The nested git tree of the files below `dir`.
RECURSIVE Nest(_, _)
Nest(files, dir) ==
    [n \in {Last(p) : p \in {q \in DOMAIN files :
                                Len(q) > 0 /\ dirname(q) = dir}} |->
        LET q == dir \o <<n>>
        IN  IF files[q].kind = "file"
            THEN [mode |-> "REG", sha |-> files[q].content]
            ELSE [mode |-> "DIR", sha |-> Nest(files, q)]]

NoStore == [commits |-> << >>, trees |-> {}, blobs |-> {},
            held |-> << >>, classes |-> {}, shared |-> FALSE]

NoCall == [op |-> "none", path |-> << >>, content |-> << >>,
           prev |-> NoRevision, outcome |-> "ok",
           exc_content |-> << >>, exc_rev |-> NoRevision]

\* A bzr store wraps a working tree with its files committed (revision 1).
BzrOpen(files) ==
    /\ wt = files
    /\ branch = << [parent |-> NoRevision,
                    inv |-> [p \in DOMAIN files |->
                               [kind |-> files[p].kind,
                                content |-> files[p].content,
                                revision |-> 1]]] >>

InitBzr(files) ==
    /\ backend = "bzr"
    /\ BzrOpen(files)
    /\ refs = NoRevision
    /\ store = NoStore

\* A git store wraps a repository: an empty one, with no head, or one whose
\* head is a first commit of the files.  The repository keeps its objects
\* on disk (Repo(path), as from_path opens it) or in memory (`shared`).
GitOpen(files, shared) ==
    /\ IF DOMAIN files = {}
       THEN refs = NoRevision /\ store = [NoStore EXCEPT !.shared = shared]
       ELSE LET ids == {Nest(files, d) :
                          d \in {<< >>} \cup
                                {p \in DOMAIN files :
                                   files[p].kind = "directory"}}
            IN  /\ refs = 1
                /\ store =
                     [commits |-> << [tree |-> Nest(files, << >>),
                                      parent |-> NoRevision, time |-> 0] >>,
                      trees |-> ids,
                      blobs |-> {files[p].content :
                                   p \in {q \in DOMAIN files :
                                            files[q].kind = "file"}},
                      held |-> [t \in ids |-> t],
                      classes |-> IF shared THEN {{t} : t \in ids} ELSE {},
                      shared |-> shared]

InitGit(files, shared) ==
    /\ backend = "git"
    /\ wt = << >>
    /\ branch = << >>
    /\ GitOpen(files, shared)

\* The callers of one store instance, and a caller that is in no call.
Threads == {"t1", "t2"}
NoThread == "none"

NoRoot == [found |-> FALSE, commit_id |-> NoRevision, root |-> << >>]

\* The head reference: the branch tip (bzr), refs[self.ref] (git).
HeadRef == IF backend = "bzr" THEN Len(branch) ELSE refs

\* The File a reader holds (none before get_file returned one), and what
\* the reader has read from it.
NoFile == [is_directory |-> FALSE, rev |-> NoRevision, sha |-> << >>,
           commit_sha |-> NoRevision]
NotSeen == [state |-> "none", content |-> << >>, rev |-> NoRevision]

\* `heads` are the heads when a reader's get_file ran and when its File was
\* last read.
Idle == [pc |-> "idle", path |-> << >>, content |-> << >>,
         prev |-> NoRevision, got |-> NoRoot, outcome |-> "",
         commit |-> NoRevision, file |-> NoFile, seen |-> NotSeen,
         heads |-> <<NoRevision, NoRevision>>]

\* A repository in memory is created empty; one on disk is opened empty or
\* with its files.
Init ==
    /\ \E files \in InitialFiles :
          \/ InitBzr(files)
          \/ InitGit(files, FALSE)
          \/ files = << >> /\ InitGit(files, TRUE)
    /\ last = NoCall
    /\ calls = [t \in Threads |-> Idle]
    /\ lock = NoThread

\* The commits update_file has created: all but the one the store was
\* opened with (a git commit of time 0, bzr's revision 1).
Created ==
    IF backend = "bzr" THEN Len(branch) - 1
    ELSE Cardinality({i \in 1..Len(store.commits) :
                        store.commits[i].time > 0})

\* The revisions a caller presents as parent_revision: none, the first
\* revision of the store, the head.
ParentRevisions ==
    {NoRevision, 1, IF backend = "bzr" THEN Len(branch) ELSE refs}
    \cap 0..(IF backend = "bzr" THEN Len(branch) ELSE Len(store.commits))

Call(op, path, content, prev, outcome, exc_content, exc_rev) ==
    [op |-> op, path |-> path, content |-> content, prev |-> prev,
     outcome |-> outcome, exc_content |-> exc_content, exc_rev |-> exc_rev]

BzrUpdateFile(path, content, parent_revision) ==
    /\ backend = "bzr"
    /\ parent_revision \in ParentRevisions
    /\ \E r \in {bzr_update_file(path, content, parent_revision)} :
           /\ r.outcome = "ok" => Created < MaxCommits
           /\ wt' = r.wt
           /\ branch' = r.branch
           /\ last' = Call("update_file", path, content, parent_revision,
                           r.outcome, r.exc_content, r.exc_rev)
    /\ UNCHANGED <<backend, refs, store, calls, lock>>

GitUpdateFile(path, content, parent_revision) ==
    /\ backend = "git"
    /\ parent_revision \in ParentRevisions
    /\ \E r \in {git_update_file(path, content, parent_revision)} :
           /\ r.outcome = "ok" => Created < MaxCommits
           /\ refs' = r.refs
           /\ store' = r.store
           /\ last' = Call("update_file", path, content, parent_revision,
                           r.outcome, << >>, NoRevision)
    /\ UNCHANGED <<backend, wt, branch, calls, lock>>

get_file(path) ==
    IF backend = "bzr" THEN bzr_get_file(path) ELSE git_get_file(path)

list_directory(dir) ==
    IF backend = "bzr" THEN bzr_list_directory(dir)
    ELSE git_list_directory(dir)

\* How a read ended: "ok", or the error it raised.
ReadOutcome(result) == IF result.error = "" THEN "ok" ELSE result.error

\* The reads change nothing in the store; `last` keeps the operation and how
\* it ended, and what it returned is get_file(path) in the state it ran in.
GetFile ==
    /\ \E outcome \in {ReadOutcome(get_file(path)) : path \in Paths} :
          last' = Call("get_file", << >>, << >>, NoRevision, outcome,
                       << >>, NoRevision)
    /\ UNCHANGED <<backend, wt, branch, refs, store, calls, lock>>

ListDirectory ==
    /\ \E outcome \in {ReadOutcome(list_directory(dir)) :
                          dir \in Paths \cup {<< >>}} :
          last' = Call("list_directory", << >>, << >>, NoRevision, outcome,
                       << >>, NoRevision)
    /\ UNCHANGED <<backend, wt, branch, refs, store, calls, lock>>

MaxRevision == MaxCommits + 1

Next ==
    \/ \E in \in UpdateInputs, prev \in 0..MaxRevision :
          BzrUpdateFile(in[1], in[2], prev)
    \/ \E in \in UpdateInputs, prev \in 0..MaxRevision :
          GitUpdateFile(in[1], in[2], prev)
    \/ GetFile
    \/ ListDirectory

Spec == Init /\ [][Next]_vars

---------------------------------------------------------------------------
(* Callers on several threads.  An update_file call is a sequence of steps *)
(* of its thread; the steps of different threads interleave.  The steps    *)
(* are cut where the call reads or writes what the threads share: the head *)
(* reference and the object store (git), the working tree and the branch   *)
(* behind the tree's write lock (bzr).                                     *)

\* The contents two callers submit for a file and for a new path.
CallInputs ==
    {<<PathA, Mk(TextFirst, LF, TRUE)>>,
     <<PathA, Mk(TextThird, LF, FALSE)>>,
     <<<<"n">>, Mk(<<"x", "y">>, LF, TRUE)>>}

InFlight == {t \in Threads : calls[t].pc \in {"called", "inside"}}

\* A thread calls update_file(path, content, user, parent_revision).
BeginUpdateFile(t, path, content, parent_revision) ==
    /\ calls[t].pc \in {"idle", "done"}
    /\ Created + Cardinality(InFlight) < MaxCommits
    /\ parent_revision \in ParentRevisions
    /\ calls' = [calls EXCEPT ![t] =
                   [Idle EXCEPT !.pc = "called", !.path = path,
                                !.content = content,
                                !.prev = parent_revision]]
    /\ UNCHANGED <<backend, wt, branch, refs, store, last, lock>>

\* bzr.py line 64: working_tree.lock_write(), taken here as a lock that one
\* thread holds at a time.
BzrLockWrite(t) ==
    /\ backend = "bzr"
    /\ calls[t].pc = "called"
    /\ lock = NoThread
    /\ lock' = t
    /\ calls' = [calls EXCEPT ![t].pc = "inside"]
    /\ UNCHANGED <<backend, wt, branch, refs, store, last>>

\* bzr.py lines 65-77: the add or the update, then unlock() in `finally`.
BzrLockedUpdate(t) ==
    /\ backend = "bzr"
    /\ calls[t].pc = "inside"
    /\ lock = t
    /\ \E r \in {bzr_update_file(calls[t].path, calls[t].content,
                                  calls[t].prev)} :
           /\ wt' = r.wt
           /\ branch' = r.branch
           /\ last' = Call("update_file", calls[t].path, calls[t].content,
                           calls[t].prev, r.outcome, r.exc_content, r.exc_rev)
           /\ calls' = [calls EXCEPT
                          ![t].pc = "done",
                          ![t].outcome = r.outcome,
                          ![t].commit = IF r.outcome = "ok"
                                        THEN Len(r.branch) ELSE NoRevision]
    /\ lock' = NoThread
    /\ UNCHANGED <<backend, refs, store>>

\* git.py line 72: commit_id, root_id = self._get_root(parent_revision).
GitGetRoot(t) ==
    /\ backend = "git"
    /\ calls[t].pc = "called"
    /\ calls' = [calls EXCEPT ![t].pc = "inside",
                              ![t].got = _get_root(calls[t].prev)]
    /\ UNCHANGED <<backend, wt, branch, refs, store, last, lock>>

\* git.py lines 73-111: the trees and the commit built from the root that
\* line 72 returned, and the reference set to the commit.
GitCommit(t) ==
    /\ backend = "git"
    /\ calls[t].pc = "inside"
    /\ \E r \in {git_build(calls[t].got, calls[t].path, calls[t].content)} :
           /\ refs' = r.refs
           /\ store' = r.store
           /\ last' = Call("update_file", calls[t].path, calls[t].content,
                           calls[t].prev, r.outcome, << >>, NoRevision)
           /\ calls' = [calls EXCEPT
                          ![t].pc = "done",
                          ![t].outcome = r.outcome,
                          ![t].commit = IF r.outcome = "ok"
                                        THEN r.refs ELSE NoRevision]
    /\ UNCHANGED <<backend, wt, branch, lock>>

\* The paths the readers ask for.
ReadPaths == {PathA, <<"n">>}

\* A thread calls get_file(path) and is returned a File.  bzr's File keeps
\* the revision of the basis tree's inventory entry (lines 199-210); git's
\* File keeps mode, sha and the commit that was the head (line 67).
ReaderGetFile(t, path) ==
    /\ calls[t].pc \in {"idle", "done"}
    /\ backend = "bzr" => lock = NoThread
    /\ get_file(path).found /\ get_file(path).error = ""
    /\ LET got == _get_root(NoRevision)
           e == tree_lookup_path("DIR", got.root, path)
           file == IF backend = "bzr"
                   THEN [NoFile EXCEPT
                           !.is_directory = wt[path].kind = "directory",
                           !.rev = BasisTree[path].revision]
                   ELSE [NoFile EXCEPT
                           !.is_directory = e.mode = "DIR",
                           !.sha = e.sha,
                           !.commit_sha = got.commit_id]
       IN  calls' = [calls EXCEPT ![t] =
                       [Idle EXCEPT !.pc = "file", !.path = path,
                                    !.file = file,
                                    !.heads = <<HeadRef, HeadRef>>]]
    /\ UNCHANGED <<backend, wt, branch, refs, store, last, lock>>

\* The thread reads the File: get_content() and last_modified_in_revision.
\* bzr reads the text from the working tree under lock_read (lines 227-236)
\* and has the revision from the constructor; git fetches the object of
\* the File's sha and walks the history from the File's commit.
ReaderGetContent(t) ==
    /\ calls[t].pc = "file"
    /\ backend = "bzr" => lock = NoThread
    /\ LET f == calls[t].file
           path == calls[t].path
           seen == IF backend = "bzr"
                   THEN [state |-> IF wt[path].kind = "directory"
                                   THEN "IOError" ELSE "bytes",
                         content |-> wt[path].content,
                         rev |-> f.rev]
                   ELSE [state |-> IF f.is_directory THEN "none"
                                   ELSE IF f.sha \in store.blobs
                                        THEN "bytes" ELSE "KeyError",
                         content |-> IF ~f.is_directory
                                        /\ f.sha \in store.blobs
                                     THEN f.sha ELSE << >>,
                         rev |-> last_modified_commit(f.commit_sha, path)]
       IN  calls' = [calls EXCEPT
                       ![t].pc = "done", ![t].outcome = "read",
                       ![t].seen = seen,
                       ![t].heads = <<calls[t].heads[1], HeadRef>>]
    /\ UNCHANGED <<backend, wt, branch, refs, store, last, lock>>

NextConcurrent ==
    \/ \E t \in Threads, in \in CallInputs, prev \in 0..MaxRevision :
          BeginUpdateFile(t, in[1], in[2], prev)
    \/ \E t \in Threads, path \in ReadPaths : ReaderGetFile(t, path)
    \/ \E t \in Threads : ReaderGetContent(t)
    \/ \E t \in Threads : BzrLockWrite(t)
    \/ \E t \in Threads : BzrLockedUpdate(t)
    \/ \E t \in Threads : GitGetRoot(t)
    \/ \E t \in Threads : GitCommit(t)

SpecConcurrent == Init /\ [][NextConcurrent]_vars

---------------------------------------------------------------------------
(* Callers whose texts hold a line that reads like a conflict marker. *)

TextMarker == <<"p0", "q0", ">>>>>>>">>

\* The (path, content) pairs of these callers.
MarkerInputs ==
    {PathA} \X { Mk(TextMarker, LF, TRUE), Mk(TextFirst, LF, TRUE),
                 Mk(TextFirstToo, LF, TRUE) }

NextMarkerText ==
    \/ \E in \in MarkerInputs, prev \in 0..MaxRevision :
          BzrUpdateFile(in[1], in[2], prev)
    \/ \E in \in MarkerInputs, prev \in 0..MaxRevision :
          GitUpdateFile(in[1], in[2], prev)

SpecMarkerText == Init /\ [][NextMarkerText]_vars

---------------------------------------------------------------------------
(* A caller that drives a bzr store and a git store side by side. *)

\* Both stores are opened on the same files; the git repository is on disk.
InitBoth ==
    /\ backend = "both"
    /\ \E files \in InitialFiles : BzrOpen(files) /\ GitOpen(files, FALSE)
    /\ last = NoCall
    /\ calls = [t \in Threads |-> Idle]
    /\ lock = NoThread

\* The parent_revision a caller passes: None, or (based) the
\* last_modified_in_revision of the File that get_file returns.
BasedOn(file, based) ==
    IF based /\ file.found /\ file.error = "" THEN file.rev ELSE NoRevision

\* The same update_file call on both stores.
BothUpdateFile(path, content, based) ==
    /\ backend = "both"
    /\ LET prevB == BasedOn(bzr_get_file(path), based)
           prevG == BasedOn(git_get_file(path), based)
           rb == bzr_update_file(path, content, prevB)
           rg == git_update_file(path, content, prevG)
       IN  /\ rb.outcome = "ok" => Len(branch) - 1 < MaxCommits
           /\ rg.outcome = "ok" => Len(store.commits) - 1 < MaxCommits
           /\ wt' = rb.wt
           /\ branch' = rb.branch
           /\ refs' = rg.refs
           /\ store' = rg.store
           /\ last' = Call("update_file", path, content, prevB,
                           rb.outcome, rb.exc_content, rb.exc_rev)
    /\ UNCHANGED <<backend, calls, lock>>

NextBoth ==
    \E in \in UpdateInputs, based \in BOOLEAN :
        BothUpdateFile(in[1], in[2], based)

SpecBoth == InitBoth /\ [][NextBoth]_vars

---------------------------------------------------------------------------
(* What a caller can observe of the history. *)

\* The number of commits the repository holds.
NumCommits == IF backend = "bzr" THEN Len(branch) ELSE Len(store.commits)

\* The parent a commit records, NoRevision when it records none.
ParentOf(rev) ==
    IF backend = "bzr" THEN branch[rev].parent ELSE store.commits[rev].parent

\* The parent the head commit records.
HeadParent ==
    IF HeadRef = NoRevision THEN NoRevision ELSE ParentOf(HeadRef)

\* The file a revision holds at a path: [found, is_directory, content].
FileAt(rev, path) ==
    LET none == [found |-> FALSE, is_directory |-> FALSE, content |-> << >>]
    IN  IF rev \notin 1..NumCommits THEN none
        ELSE IF backend = "bzr"
        THEN (IF path \in DOMAIN branch[rev].inv
              THEN [found |-> TRUE,
                    is_directory |-> branch[rev].inv[path].kind = "directory",
                    content |-> branch[rev].inv[path].content]
              ELSE none)
        ELSE LET e == tree_lookup_path("DIR", store.commits[rev].tree, path)
             IN  IF e.state # "ok" THEN none
                 ELSE [found |-> TRUE, is_directory |-> e.mode = "DIR",
                       content |-> IF e.mode = "DIR" THEN << >> ELSE e.sha]

---------------------------------------------------------------------------
(* Properties of the stores. *)

IsUpdate(call) == call.op = "update_file"
Succeeded(call) == call.op = "update_file" /\ call.outcome = "ok"

\* The lines in which content c differs from base, in text or in ending;
\* the two hold the same number of lines.
ChangedLines(base, c) == {i \in 1..Len(base) : c[i] # base[i]}

IsMarker(line) == line.t \in {"<<<<<<<", "=======", ">>>>>>>"}

\* The line-ending rule for a new path, as the specification words it:
\* every ending becomes "\n" and the text ends with a newline.
NormalizedForNewPath(c) ==
    IF Len(c) = 0 THEN << [t |-> "", e |-> LF] >>
    ELSE [i \in 1..Len(c) |-> [t |-> c[i].t, e |-> LF]]

\* C1: every change of the head reference moves it to a newly created commit
\* whose parent is the commit the head pointed to before.
C1_LinearHistory ==
    [][HeadRef' # HeadRef =>
          /\ HeadRef' \in (NumCommits + 1)..NumCommits'
          /\ HeadParent' = HeadRef]_vars

\* The revisions in the history of `rev`: itself and its ancestors.
RECURSIVE History(_)
History(rev) ==
    IF rev = NoRevision THEN {} ELSE {rev} \cup History(ParentOf(rev))

\* C2: update_file calls of concurrent callers are serialized.  At most one
\* call is inside the sequence from resolving the head to advancing it, and
\* the commit of every call that succeeded is in the history of the head.
C2_UpdatesSerialized ==
    /\ Cardinality({t \in Threads : calls[t].pc = "inside"}) <= 1
    /\ \A t \in Threads :
          (calls[t].pc = "done" /\ calls[t].outcome = "ok")
             => calls[t].commit \in History(HeadRef)

\* Both contents change the text of one line of base, each to another text.
SameLineChangedDifferently(base, c1, c2) ==
    /\ Len(c1) = Len(base) /\ Len(c2) = Len(base)
    /\ \E i \in 1..Len(base) :
          /\ c1[i].t # base[i].t /\ c2[i].t # base[i].t
          /\ c1[i].t # c2[i].t

\* C3: two update_file calls on one existing path that present the same
\* parent revision R (the file's revision before the first) and change the
\* same line differently: the first succeeds, the second raises
\* UpdateConflicts whose basis_rev is the file's last_modified_in_revision
\* after the first update, not R.
C3_ConflictOnSameLine ==
    [][/\ (/\ IsUpdate(last')
           /\ last'.content # << >>
           /\ Len(last'.content) = Len(get_file(last'.path).content)
           /\ get_file(last'.path).content_state = "bytes"
           /\ last'.prev = get_file(last'.path).rev
           /\ last'.prev # NoRevision)
          => last'.outcome = "ok"
       /\ (/\ Succeeded(last) /\ IsUpdate(last')
           /\ last'.path = last.path /\ last'.prev = last.prev
           /\ FileAt(HeadRef - 1, last.path).found
           /\ ~FileAt(HeadRef - 1, last.path).is_directory
           /\ FileAt(last.prev, last.path).found
           /\ FileAt(last.prev, last.path).content
                  = FileAt(HeadRef - 1, last.path).content
           /\ SameLineChangedDifferently(
                  FileAt(last.prev, last.path).content,
                  last.content, last'.content))
          => /\ last'.outcome = "UpdateConflicts"
             /\ last'.exc_rev = get_file(last.path).rev
             /\ last'.exc_rev # last.prev]_vars

\* The contents change lines of base that are neither the same nor next to
\* each other.
DisjointChanges(base, c1, c2) ==
    /\ Len(c1) = Len(base) /\ Len(c2) = Len(base)
    /\ ChangedLines(base, c1) # {} /\ ChangedLines(base, c2) # {}
    /\ \A i \in ChangedLines(base, c1), j \in ChangedLines(base, c2) :
          i - j \notin {-1, 0, 1}

\* C4: two sequential update_file calls on one existing path that present
\* the same original parent revision and change disjoint, non-adjacent
\* lines: the second succeeds and get_file then returns a text with both
\* changes and no conflict-marker line.
C4_DisjointEditsMerge ==
    [][\A p \in Paths :
        (/\ Succeeded(last) /\ IsUpdate(last')
         /\ last.path = p /\ last'.path = p /\ last'.prev = last.prev
         /\ FileAt(HeadRef - 1, p).found
         /\ ~FileAt(HeadRef - 1, p).is_directory
         /\ FileAt(last.prev, p).found
         /\ FileAt(last.prev, p).content = FileAt(HeadRef - 1, p).content
         /\ DisjointChanges(FileAt(last.prev, p).content,
                            last.content, last'.content))
        => /\ last'.outcome = "ok"
           /\ get_file(p)'.found
           /\ get_file(p)'.content_state = "bytes"
           /\ LET base == FileAt(last.prev, p).content
                  text == get_file(p)'.content
              IN  /\ Len(text) = Len(base)
                  /\ \A i \in ChangedLines(base, last.content) :
                        text[i].t = last.content[i].t
                  /\ \A i \in ChangedLines(base, last'.content) :
                        text[i].t = last'.content[i].t
                  /\ \A i \in 1..Len(text) : ~IsMarker(text[i])]_vars

\* C5: an update_file call that raises UpdateConflicts or FileExists leaves
\* the store as it was: no commit is created, the head reference stays, and
\* get_file of every path returns what it returned before.  What get_file
\* reads is the working tree and the branch (bzr), the reference and the
\* object store (git): none of them changes, and the read of the target
\* path is compared as the caller sees it.
C5_FailedUpdateChangesNothing ==
    [][(IsUpdate(last') /\ last'.outcome \in {"UpdateConflicts", "FileExists"})
       => /\ NumCommits' = NumCommits
          /\ HeadRef' = HeadRef
          /\ UNCHANGED <<wt, branch, refs, store>>
          /\ \A p \in Paths :
                last'.path = p => get_file(p)' = get_file(p)]_vars

\* C5's case: a call has raised UpdateConflicts against a stale base.
C5_Witness ==
    /\ IsUpdate(last) /\ last.outcome = "UpdateConflicts"
    /\ last.exc_rev = HeadRef /\ last.prev < HeadRef
    /\ \E i \in 1..Len(last.exc_content) : IsMarker(last.exc_content[i])

\* C6: an update_file call that returns creates exactly one commit and
\* leaves the head reference on it; nothing else moves the head reference.
C6_OneCommitPerUpdate ==
    [][/\ Succeeded(last')
          => (vars' # vars =>
                /\ NumCommits' = NumCommits + 1
                /\ HeadRef' = NumCommits')
       /\ (HeadRef' # HeadRef \/ NumCommits' # NumCommits)
          => Succeeded(last')]_vars

\* C6's case: update_file has returned and the head is the commit it made.
C6_Witness ==
    /\ Succeeded(last) /\ Created = MaxCommits /\ HeadRef = NumCommits

\* C7: update_file raises FileExists whenever a proper ancestor of the path,
\* at any level, exists as a non-directory entry.
C7_AncestorIsFile ==
    [][(/\ IsUpdate(last')
        /\ \E d \in Ancestors(last'.path) :
              get_file(d).found /\ ~get_file(d).is_directory)
       => last'.outcome = "FileExists"]_vars

\* C8: update_file on a path that exists as a directory raises FileExists.
C8_TargetIsDirectory ==
    [][(/\ IsUpdate(last')
        /\ get_file(last'.path).found
        /\ get_file(last'.path).is_directory)
       => last'.outcome = "FileExists"]_vars

\* C9: after update_file has written content c to a path that did not
\* exist, get_file of the path returns a non-directory File whose content is
\* c under the line-ending rule for new paths and whose
\* last_modified_in_revision is the commit that call created.
C9_NewPathReadBack ==
    [][\A p \in Paths :
        (Succeeded(last') /\ last'.path = p /\ ~get_file(p).found)
        => /\ get_file(p)'.found
           /\ ~get_file(p)'.is_directory
           /\ get_file(p)'.content_state = "bytes"
           /\ get_file(p)'.content = NormalizedForNewPath(last'.content)
           /\ get_file(p)'.rev = NumCommits']_vars

\* The bytes the head names at a path, whether or not they can be read:
\* the working tree's file (bzr), the blob id of the tree entry (git).
StoredContent(path) ==
    LET none == [found |-> FALSE, content |-> << >>]
    IN  IF backend = "bzr"
        THEN (IF path2id(path) /\ wt[path].kind = "file"
              THEN [found |-> TRUE, content |-> wt[path].content] ELSE none)
        ELSE LET e == tree_lookup_path("DIR", _get_root(NoRevision).root, path)
             IN  IF e.state = "ok" /\ e.mode = "REG"
                 THEN [found |-> TRUE, content |-> e.sha] ELSE none

\* C10: when update_file creates a path, the stored text is the submitted
\* one with every line ending "\n", and it ends with "\n".
C10_NewPathNormalized ==
    [][\A p \in Paths :
        (Succeeded(last') /\ last'.path = p /\ ~get_file(p).found)
        => /\ StoredContent(p)'.found
           /\ LET text == StoredContent(p)'.content
              IN  /\ Len(text) > 0
                  /\ \A i \in 1..Len(text) : text[i].e = LF
                  /\ splitlines(text)
                        = splitlines(NormalizedForNewPath(last'.content))]_vars

\* update_file of the store that was constructed, as what it returns or
\* raises and the store it leaves.
update_file(path, content, parent_revision) ==
    IF backend = "bzr"
    THEN LET r == bzr_update_file(path, content, parent_revision)
         IN  [outcome |-> r.outcome, wt |-> r.wt, branch |-> r.branch,
              refs |-> refs, store |-> store]
    ELSE LET r == git_update_file(path, content, parent_revision)
         IN  [outcome |-> r.outcome, wt |-> wt, branch |-> branch,
              refs |-> r.refs, store |-> r.store]

\* C11: parent_revision is ignored when update_file creates a path that the
\* head does not hold: whatever revision the caller presented, the call
\* ends as it would have ended, and leaves the store it would have left,
\* with any other parent_revision (none, the head, an older revision).
C11_ParentRevisionIgnored ==
    [][\A in \in UpdateInputs :
        (/\ IsUpdate(last') /\ last'.path = in[1] /\ last'.content = in[2]
         /\ ~get_file(in[1]).found /\ get_file(in[1]).error = "")
        => \A prev \in ParentRevisions :
              /\ last'.outcome = update_file(in[1], in[2], prev).outcome
              /\ wt' = update_file(in[1], in[2], prev).wt
              /\ branch' = update_file(in[1], in[2], prev).branch
              /\ refs' = update_file(in[1], in[2], prev).refs
              /\ store' = update_file(in[1], in[2], prev).store]_vars

\* C12: the object store is append-only under update_file: every id it
\* holds keeps naming the blob, tree or commit it named when it was stored;
\* update_file adds objects and never changes the entries of a tree it
\* fetched from the store.
C12_ObjectStoreAppendOnly ==
    [][backend = "git" =>
         /\ \A id \in store.trees :
               id \in store'.trees /\ store'.held[id] = store.held[id]
         /\ store.blobs \subseteq store'.blobs
         /\ Len(store'.commits) >= Len(store.commits)
         /\ SubSeq(store'.commits, 1, Len(store.commits)) = store.commits]_vars

\* The head holds a regular file at the path and a directory at every
\* proper ancestor of it.
FileBelowDirectories(path) ==
    /\ get_file(path).found /\ ~get_file(path).is_directory
    /\ \A d \in Ancestors(path) :
          get_file(d).found /\ get_file(d).is_directory

\* C13: the head that a successful update_file leaves resolves the written
\* path to a regular file and every proper ancestor of it to a directory,
\* and a path that resolves so keeps resolving so in every later head.
C13_AncestorChainOfDirectories ==
    [][\A p \in Paths :
         ((Succeeded(last') /\ last'.path = p) \/ FileBelowDirectories(p))
         => FileBelowDirectories(p)']_vars

\* get_file returned None and raised nothing.
NoneQuietly(result) == ~result.found /\ result.error = ""

\* C14: get_file returns none, and raises nothing, for every path that was
\* never written and is no ancestor directory of a written path: for the
\* paths the store did not hold when it was opened, and from then on until
\* a successful update_file writes the path or a path below it.
C14_UnwrittenPathIsNone ==
    /\ \A p \in Paths :
          ~FileAt(HeadRef, p).found => NoneQuietly(get_file(p))
    /\ [][\A p \in Paths :
            (/\ NoneQuietly(get_file(p))
             /\ ~(/\ Succeeded(last')
                  /\ (p = last'.path \/ p \in Ancestors(last'.path))))
            => NoneQuietly(get_file(p)')]_vars

\* The path names a directory of the head: the root (None), or a path at
\* which get_file returns a directory.
IsDirectoryPath(dir) ==
    dir = << >> \/ (get_file(dir).found /\ get_file(dir).is_directory)

\* C15: list_directory raises nothing; it returns none exactly when the path
\* does not resolve to a directory, and otherwise the direct children of
\* the directory and nothing else: the empty sequence for a directory
\* without entries, the root of a store without entries included.
C15_ListDirectory ==
    \A dir \in Paths \cup {<< >>} :
        LET listing == list_directory(dir)
        IN  /\ listing.error = ""
            /\ listing.none <=> ~IsDirectoryPath(dir)
            /\ ~listing.none =>
                  /\ \A p \in listing.paths :
                        Len(p) > 0 /\ dirname(p) = dir /\ get_file(p).found
                  /\ \A p \in Paths :
                        (dirname(p) = dir /\ get_file(p).found)
                           => p \in listing.paths

\* The line texts of a content, without their endings.
Texts(lines) == [i \in 1..Len(lines) |-> lines[i].t]

\* x is a run of consecutive elements of s.
IsRun(x, s) ==
    \E i \in 1..(Len(s) + 1) :
        i + Len(x) - 1 <= Len(s) /\ x = SubSeq(s, i, i + Len(x) - 1)

\* `text` is a merge of the incoming and the local lines whose conflict
\* regions are <<<<<<<, incoming lines, =======, local lines, >>>>>>>, and
\* every marker ends as the local lines do.
ConflictRendering(text, incoming, local) ==
    LET idx == {i \in 1..Len(text) : IsMarker(text[i])}
        n == Cardinality(idx)
        nth(k) == CHOOSE i \in idx : Cardinality({j \in idx : j < i}) = k - 1
        order == <<"<<<<<<<", "=======", ">>>>>>>">>
        between(k) == Texts(SubSeq(text, nth(k) + 1, nth(k + 1) - 1))
    IN  /\ n > 0 /\ n % 3 = 0
        /\ \A k \in 1..n :
              /\ text[nth(k)].t = order[((k - 1) % 3) + 1]
              /\ text[nth(k)].e = get_line_ending(local)
        /\ \A r \in 0..((n \div 3) - 1) :
              /\ IsRun(between(3 * r + 1), Texts(incoming))
              /\ IsRun(between(3 * r + 2), Texts(local))
              /\ between(3 * r + 1) # between(3 * r + 2)
        /\ \A i \in (1..Len(text)) \ idx :
              \E j \in 1..Len(local) :
                  text[i].t \in {local[j].t, incoming[j].t}

\* C16: the content carried by UpdateConflicts is the merged text in which
\* each conflict region is the line <<<<<<<, the incoming lines, the line
\* =======, the local lines of the head and the line >>>>>>>; every marker
\* line ends with the line ending of the existing file (\r\n for a file of
\* \r\n lines, \n for a file of \n lines).
C16_ConflictContent ==
    [][\A p \in Paths :
         (/\ IsUpdate(last') /\ last'.path = p
          /\ last'.outcome = "UpdateConflicts")
         => ConflictRendering(last'.exc_content, last'.content,
                              get_file(p).content)]_vars

\* A conflict on a file of \r\n lines has been reported.
C16_Witness ==
    /\ IsUpdate(last) /\ last.outcome = "UpdateConflicts"
    /\ get_line_ending(get_file(last.path).content) = CRLF
    /\ \E i \in 1..Len(last.exc_content) :
          last.exc_content[i] = Marker("<<<<<<<", CRLF)

\* update_file(path, content, ..., parent_revision) is called for a file of
\* \n lines with content of \r\n lines, based on the file's current
\* revision.  update_file takes no line-ending option: no call asks for
\* the endings to be matched, and every call gets them matched.
DosUpdateOfUnixFile(path, content, call) ==
    /\ IsUpdate(call) /\ call.path = path /\ call.content = content
    /\ Len(content) > 0 /\ get_line_ending(content) = CRLF
    /\ get_file(path).found /\ get_file(path).content_state = "bytes"
    /\ Len(get_file(path).content) > 0
    /\ get_line_ending(get_file(path).content) = LF
    /\ call.prev = get_file(path).rev /\ call.prev # NoRevision

\* C17: when the existing file has \n line endings, the incoming content
\* has \r\n line endings and matching of the line endings is not asked
\* for, an update based on the file's current revision stores the incoming
\* content as submitted: get_content returns the submitted bytes.
C17_StoredVerbatim ==
    [][\A in \in UpdateInputs :
         DosUpdateOfUnixFile(in[1], in[2], last')
         => /\ last'.outcome = "ok"
            /\ get_file(in[1])'.content_state = "bytes"
            /\ get_file(in[1])'.content = in[2]]_vars

\* The content with every line ending replaced by `ending`, and nothing
\* else added or removed.
ConvertEndings(content, ending) ==
    [i \in 1..Len(content) |->
        [t |-> content[i].t,
         e |-> IF content[i].e = NOEOL THEN NOEOL ELSE ending]]

\* C18: when the line endings are matched and the incoming content's style
\* differs from the existing file's, an update based on the file's current
\* revision stores the incoming content with its line endings converted to
\* the file's style and nothing else added or removed (\r\n content without
\* a newline at the end reads back with each \r\n replaced by \n).
C18_StoredConverted ==
    [][\A in \in UpdateInputs :
         DosUpdateOfUnixFile(in[1], in[2], last')
         => /\ last'.outcome = "ok"
            /\ get_file(in[1])'.content_state = "bytes"
            /\ get_file(in[1])'.content = ConvertEndings(in[2], LF)]_vars

\* The revision in which the path was last modified, as of revision rev.
LastModifiedAt(rev, path) ==
    IF backend = "bzr" THEN branch[rev].inv[path].revision
    ELSE last_modified_commit(rev, path)

\* C19: a reader that runs while update_file calls run sees one committed
\* snapshot: the content and the last_modified_in_revision of the File that
\* get_file returned are those of one commit that was the head at some
\* time during the reader's call, never a mix or uncommitted content.
C19_ReadersSeeSnapshot ==
    \A t \in Threads :
        (/\ calls[t].pc = "done" /\ calls[t].outcome = "read"
         /\ calls[t].seen.state = "bytes")
        => \E c \in calls[t].heads[1]..calls[t].heads[2] :
              /\ FileAt(c, calls[t].path).found
              /\ ~FileAt(c, calls[t].path).is_directory
              /\ FileAt(c, calls[t].path).content = calls[t].seen.content
              /\ LastModifiedAt(c, calls[t].path) = calls[t].seen.rev

\* What a caller sees of a File: whether there is one, whether it is a
\* directory and its content; of a listing: the paths.
SeenOfFile(file) ==
    [outcome |-> ReadOutcome(file), found |-> file.found,
     is_directory |-> file.is_directory,
     content_state |-> file.content_state, content |-> file.content]
SeenOfListing(listing) ==
    [outcome |-> ReadOutcome(listing), none |-> listing.none,
     paths |-> listing.paths]

\* C20: the two backends are interchangeable.  On a bzr store and a git
\* store that started from the same contents and were given the same calls,
\* the next update_file call ends the same way on both, get_file returns
\* none for the same paths and the same content and is_directory for the
\* others, and list_directory returns the same paths.
C20_BackendsInterchangeable ==
    backend = "both" =>
        /\ \A p \in Paths :
              SeenOfFile(bzr_get_file(p)) = SeenOfFile(git_get_file(p))
        /\ \A dir \in Paths \cup {<< >>} :
              SeenOfListing(bzr_list_directory(dir))
                 = SeenOfListing(git_list_directory(dir))
        /\ \A in \in UpdateInputs, based \in BOOLEAN :
              bzr_update_file(in[1], in[2],
                              BasedOn(bzr_get_file(in[1]), based)).outcome
                 = git_update_file(in[1], in[2],
                              BasedOn(git_get_file(in[1]), based)).outcome

\* update_file(path, content, ..., parent_revision) finds a file at the
\* path and has the three texts to merge: the file's at parent_revision,
\* the head's and the incoming one.
MergeRuns(path, content, parent_revision) ==
    /\ get_file(path).found /\ get_file(path).content_state = "bytes"
    /\ FileAt(parent_revision, path).found
    /\ ~FileAt(parent_revision, path).is_directory
    /\ Len(content) > 0 /\ Len(get_file(path).content) > 0

\* The three-way merge of the call has a conflict region.
ThreeWayConflicts(path, content, parent_revision) ==
    IF backend = "bzr"
    THEN merge_update(path, content, parent_revision).conflict_region
    ELSE ConflictFrom(FileAt(parent_revision, path).content, content,
                      get_file(path).content, 1)

\* C21: update_file on an existing path raises UpdateConflicts if and only
\* if the three-way merge of the basis, the local and the incoming content
\* has a conflict region; with no conflict region the call succeeds,
\* whatever the three texts are.
C21_ConflictsIffConflictRegion ==
    [][\A in \in MarkerInputs \cup UpdateInputs, prev \in 0..MaxRevision :
         (/\ IsUpdate(last') /\ last'.path = in[1]
          /\ last'.content = in[2] /\ last'.prev = prev
          /\ MergeRuns(in[1], in[2], prev))
         => IF ThreeWayConflicts(in[1], in[2], prev)
            THEN last'.outcome = "UpdateConflicts"
            ELSE last'.outcome = "ok"]_vars

\* The call `again` resubmits, with content of its own, the update that the
\* call `first` was refused with UpdateConflicts: same path, and the
\* basis_rev of the exception as parent_revision.
Resubmits(first, again) ==
    /\ IsUpdate(first) /\ first.outcome = "UpdateConflicts"
    /\ IsUpdate(again) /\ again.path = first.path
    /\ again.prev = first.exc_rev

\* C22: after update_file raised UpdateConflicts carrying basis_rev R, and
\* with no update in between, update_file for the same path with
\* parent_revision = R and any resolved content succeeds, and get_file then
\* returns the resubmitted content.
C22_ResubmissionSucceeds ==
    [][\A in \in UpdateInputs :
         (/\ Resubmits(last, last')
          /\ last'.path = in[1] /\ last'.content = in[2])
         => /\ last'.outcome = "ok"
            /\ get_file(in[1])'.content_state = "bytes"
            /\ get_file(in[1])'.content = in[2]]_vars

\* C23: for every path, every content (the empty one included, and on a
\* file whose stored content is empty) and every parent_revision (a
\* revision or none), update_file succeeds or raises FileExists or
\* UpdateConflicts, and fails with no other error.
C23_OnlyDeclaredErrors ==
    IsUpdate(last) => last.outcome \in {"ok", "FileExists", "UpdateConflicts"}

==========================================================================
